---- MODULE Spec2Model ----
(***************************************************************************)
(* Game-tree search of minimax-abprune-mcts/visualizer_all.py (and the     *)
(* identical minimax of visualizer_minimax.py): the tree built by          *)
(* GameTreeVisualizer.build_tree, the recursive minimax with optional      *)
(* alpha-beta cutoffs, and the four-phase MCTS loop.  Rendering calls      *)
(* (self.play, update_decision_box, Text objects) change no search state   *)
(* and are left out.                                                       *)
(*                                                                         *)
(* A node is identified by its position in the order of creation (the      *)
(* Python object identity); nodes[n] holds the fields of TreeNode.         *)
(* The recursion of minimax is an explicit stack of frames holding the     *)
(* locals of each activation (node, alpha, beta, value, best_child, i).    *)
(***************************************************************************)
EXTENDS Integers, Sequences, FiniteSets, TLC

\* ---------------------------------------------------------------- bounds
MaxVal == 2          \* leaf values of the generated trees are 0..MaxVal
MaxIterations == 5   \* mcts_iterations is drawn from 1..MaxIterations

\* ------------------------------------------------------- program values
PosInf == 1000               \* float("inf")
NegInf == 0 - PosInf         \* float("-inf")
None == 0 - 7777             \* Python None (never used in arithmetic)
NoNode == 0                  \* a None node reference (root's parent, best_child)

Max2(a, b) == IF a >= b THEN a ELSE b
Min2(a, b) == IF a <= b THEN a ELSE b

\* ------------------------------------------------------ tree specifications
\* The JSON input {id, value?, children?}.  A missing "value" key is None
\* (dict.get), a missing "children" key is the empty list.
Leaf(i, v) == [id |-> i, value |-> v, children |-> <<>>]
Inner(i, c) == [id |-> i, value |-> None, children |-> c]

\* The example of the specification: root(MAX) -> A(3, 5), B(2, 9).
ExampleTree ==
  [root |-> Inner("root", << Inner("A", << Leaf("a1", 3), Leaf("a2", 5) >>),
                             Inner("B", << Leaf("b1", 2), Leaf("b2", 9) >> ) >>)]

LeafSlots == 1..6      \* leaf positions of the largest shape
ShapeIds == 1..7       \* the shapes below

Shape(s, v) ==
  CASE s = 1 -> ExampleTree
    [] s = 2 -> [root |-> Inner("root",
                   << Inner("A", << Leaf("a1", v[1]), Leaf("a2", v[2]) >>),
                      Inner("B", << Leaf("b1", v[3]), Leaf("b2", v[4]) >>) >>)]
    [] s = 3 -> [root |-> Inner("root",
                   << Leaf("a", v[1]), Leaf("b", v[2]), Leaf("c", v[3]) >>)]
    [] s = 4 -> [root |-> Inner("root",
                   << Inner("A", << Inner("A1", << Leaf("p", v[1]), Leaf("q", v[2]) >>),
                                    Leaf("a2", v[3]) >>),
                      Inner("B", << Leaf("b1", v[4]),
                                    Inner("B2", << Leaf("r", v[5]), Leaf("s", v[6]) >>) >>) >>)]
    [] s = 5 -> [root |-> Leaf("root", v[1])]
    [] s = 6 -> [root |-> Inner("root",
                   << Inner("A", << Inner("A1", << Leaf("p", v[1]), Leaf("q", v[2]) >>),
                                    Leaf("a2", v[3]) >>),
                      Leaf("b", v[4]) >>)]
    [] OTHER -> [root |-> Inner("root",
                   << Leaf("a", v[1]),
                      Inner("B", << Leaf("b1", v[2]), Leaf("b2", v[3]), Leaf("b3", v[4]) >>) >>)]

TreeSpecs == { Shape(s, v) : s \in ShapeIds, v \in [LeafSlots -> 0..MaxVal] }

\* the trees of the MCTS runs: the shapes of at most four leaves
MctsShapeIds == {1, 2, 3, 5, 6}
MctsTreeSpecs == { Shape(s, v) : s \in MctsShapeIds, v \in [LeafSlots -> 0..MaxVal] }

\* ------------------------------------------------------------- TreeNode
TreeNode(i, v, p) ==
  [id |-> i, value |-> v, children |-> <<>>, depth |-> 0, is_max_node |-> TRUE,
   alpha |-> NegInf, beta |-> PosInf, pruned |-> FALSE,
   visits |-> 0, wins |-> 0, ucb |-> 0, parent |-> p]

\* TreeNode.add_child: children.append(child); child.parent = self
add_child(ns, p, c) ==
  [ns EXCEPT ![p].children = Append(@, c), ![c].parent = p]

RECURSIVE _build_subtree(_, _, _, _, _)
RECURSIVE BuildChildren(_, _, _, _, _, _)

\* the for loop of _build_subtree over children_data[k..]
BuildChildren(ns, p, children_data, k, d, is_max) ==
  IF k > Len(children_data) THEN ns
  ELSE LET child_data == children_data[k]
           c   == Len(ns) + 1
           ns1 == Append(ns, TreeNode(child_data.id, child_data.value, p))
           ns2 == add_child(ns1, p, c)
           ns3 == _build_subtree(ns2, c, child_data.children, d + 1, ~is_max)
       IN  BuildChildren(ns3, p, children_data, k + 1, d, is_max)

\* mutant: the kind is not flipped, every node is a MAX node
_build_subtree_all_max(ns, p, children_data, d, is_max) ==
  LET ns1 == [ns EXCEPT ![p].depth = d, ![p].is_max_node = TRUE]
  IN  BuildChildren(ns1, p, children_data, 1, d, is_max)

\* _build_subtree (lines 92-102)
_build_subtree(ns, p, children_data, d, is_max) ==
  LET ns1 == [ns EXCEPT ![p].depth = d, ![p].is_max_node = is_max]
  IN  BuildChildren(ns1, p, children_data, 1, d, is_max)

\* build_tree: the node table; the root is node 1
build_tree(td) ==
  _build_subtree(<< TreeNode(td.root.id, td.root.value, NoNode) >>,
                 1, td.root.children, 0, TRUE)


\* ---------------------------------------------------------------- state
VARIABLES
  tree_data,         \* the JSON tree handed to GameTreeVisualizer.__init__
  nodes,             \* the TreeNode objects, in order of creation
  pruning,           \* self.pruning
  phase,             \* where the scene is: "new", "ready", "minimax", "done", "mcts_*", "error"
  error,             \* the exception that ended the run, "none" if none
  stack,             \* the activations of minimax, innermost last
  ret,               \* the value returned by the activation that just ended
  entered,           \* history: nodes in the order minimax was entered on them
  written,           \* history: nodes whose value minimax assigned (line 495)
  fresh,             \* history: no minimax run has started on this tree yet
  runs,              \* history: one record per finished minimax run
  iterations,        \* config["mcts_iterations"]
  iteration,         \* the loop variable of run_mcts
  selected_node,     \* locals of run_mcts
  expanded_node,
  simulation_result,
  current,           \* the cursor of mcts_simulation / mcts_backpropagation
  best_child,        \* the child run_mcts recommends
  iter0              \* history: the node table when the iteration started

mm_vars == << pruning, stack, ret, entered, written, fresh, runs >>
mcts_vars == << iterations, iteration, selected_node, expanded_node,
                simulation_result, current, best_child, iter0 >>
vars == << tree_data, nodes, phase, error, mm_vars, mcts_vars >>

Root == 1
NodeSet == 1..Len(nodes)
Children(n) == nodes[n].children
IsLeaf(n) == Children(n) = <<>>           \* "not node.children"
SeqToSet(q) == { q[k] : k \in 1..Len(q) }

\* ------------------------------------------------------------- minimax
\* mutant: the comparisons of lines 394-396 exchanged
update_value_swapped(is_max, best, child_value, value) ==
  \/ best = NoNode
  \/ is_max /\ child_value < value
  \/ ~is_max /\ child_value > value

\* mutant: the comparisons of lines 394-396 not strict
update_value_nonstrict(is_max, best, child_value, value) ==
  \/ best = NoNode
  \/ is_max /\ child_value >= value
  \/ ~is_max /\ child_value <= value

\* lines 385-411 and 417: the running best is replaced by the first child
\* and afterwards only by a strictly better child
update_value(is_max, best, child_value, value) ==
  \/ best = NoNode
  \/ is_max /\ child_value > value
  \/ ~is_max /\ child_value < value

\* mutant: alpha = value instead of max(alpha, value)
new_alpha_no_max(is_max, alpha, value) == IF is_max THEN value ELSE alpha

\* mutant: beta is not lowered at a MIN node
new_beta_stale(is_max, beta, value) == beta

\* mutant: alpha is raised one above the running value
new_alpha_overshoot(is_max, alpha, value) ==
  IF is_max THEN Max2(alpha, value + 1) ELSE alpha

\* lines 433-436
new_alpha(is_max, alpha, value) == IF is_max THEN Max2(alpha, value) ELSE alpha
new_beta(is_max, beta, value) == IF is_max THEN beta ELSE Min2(beta, value)

\* mutant: the cutoff taken one too early
cutoff_eager(prune, alpha, beta) == prune /\ beta <= alpha + 1

\* mutant: the cutoff taken on beta < alpha only
cutoff_strict(prune, alpha, beta) == prune /\ beta < alpha

\* line 462
cutoff(prune, alpha, beta) == prune /\ beta <= alpha

\* mutant: node.children[i:], the child just processed included
remaining_children_from_i(children, i) == SubSeq(children, i, Len(children))

\* mutant: only the next child is taken, node.children[i + 1:i + 2]
remaining_children_next_only(children, i) ==
  SubSeq(children, i + 1, Min2(i + 1, Len(children)))

\* mutant: every child of the node is taken, node.children[:]
remaining_children_all(children, i) == children

\* line 464: node.children[i + 1:], i being the (1-based) index of the child
\* that has just been processed
remaining_children(children, i) == SubSeq(children, i + 1, Len(children))

\* mutant: the loop goes straight to the last child that is not pruned
NextUnpruned_last(n, i) ==
  LET cand == { k \in (i + 1)..Len(Children(n)) : ~nodes[Children(n)[k]].pruned }
  IN  IF cand = {} THEN 0 ELSE CHOOSE k \in cand : \A j \in cand : k >= j

\* line 370: the first child at an index above i that is not pruned, 0 if none
NextUnpruned(n, i) ==
  LET cand == { k \in (i + 1)..Len(Children(n)) : ~nodes[Children(n)[k]].pruned }
  IN  IF cand = {} THEN 0 ELSE CHOOSE k \in cand : \A j \in cand : k <= j

Frame(n, a, b) ==
  [node |-> n, alpha |-> a, beta |-> b, value |-> NegInf, best_child |-> NoNode,
   i |-> 0, at |-> "enter"]

Top == stack[Len(stack)]
Pop == SubSeq(stack, 1, Len(stack) - 1)
SetTop(f) == [stack EXCEPT ![Len(stack)] = f]

\* run_minimax, up to the call self.minimax(self.root, -inf, inf)  (line 291)
RunMinimax ==
  /\ phase = "ready"
  /\ phase' = "minimax"
  /\ stack' = << Frame(Root, NegInf, PosInf) >>
  /\ entered' = <<>>
  /\ written' = {}
  /\ fresh' = FALSE
  /\ UNCHANGED << tree_data, nodes, error, pruning, ret, runs, mcts_vars >>

\* minimax on a leaf: lines 308-309 and 336-357
EnterLeaf ==
  /\ phase = "minimax" /\ stack # <<>> /\ Top.at = "enter"
  /\ IsLeaf(Top.node)
  /\ nodes' = [nodes EXCEPT ![Top.node].alpha = Top.alpha, ![Top.node].beta = Top.beta]
  /\ entered' = Append(entered, Top.node)
  /\ ret' = nodes[Top.node].value
  /\ stack' = Pop
  /\ UNCHANGED << tree_data, phase, error, pruning, written, fresh, runs, mcts_vars >>

\* minimax on an internal node: lines 308-309 and 360-365
EnterInternal ==
  /\ phase = "minimax" /\ stack # <<>> /\ Top.at = "enter"
  /\ ~IsLeaf(Top.node)
  /\ nodes' = [nodes EXCEPT ![Top.node].alpha = Top.alpha, ![Top.node].beta = Top.beta]
  /\ entered' = Append(entered, Top.node)
  /\ stack' = SetTop([Top EXCEPT
                        !.value = IF nodes[Top.node].is_max_node THEN NegInf ELSE PosInf,
                        !.best_child = NoNode, !.i = 0, !.at = "loop"])
  /\ UNCHANGED << tree_data, phase, error, pruning, ret, written, fresh, runs, mcts_vars >>

\* the head of the for loop (lines 368-371) and the call of line 381:
\* pruned children are skipped, the next other child is entered
Descend ==
  /\ phase = "minimax" /\ stack # <<>> /\ Top.at = "loop"
  /\ NextUnpruned(Top.node, Top.i) # 0
  /\ LET k == NextUnpruned(Top.node, Top.i)
     IN  stack' = Append(SetTop([Top EXCEPT !.i = k, !.at = "call"]),
                         Frame(Children(Top.node)[k], Top.alpha, Top.beta))
  /\ UNCHANGED << tree_data, nodes, phase, error, pruning, ret, entered, written,
                  fresh, runs, mcts_vars >>

\* after the call returned: lines 385-484
ProcessReturn ==
  /\ phase = "minimax" /\ stack # <<>> /\ Top.at = "call"
  /\ LET n     == Top.node
         mx    == nodes[n].is_max_node
         child == Children(n)[Top.i]
         upd   == update_value(mx, Top.best_child, ret, Top.value)
         value == IF upd THEN ret ELSE Top.value
         best  == IF upd THEN child ELSE Top.best_child
         alpha == new_alpha(mx, Top.alpha, value)
         beta  == new_beta(mx, Top.beta, value)
         rem   == SeqToSet(remaining_children(Children(n), Top.i))
     IN  IF ret = None
         THEN \* max(alpha, None) / min(beta, None): TypeError
              /\ phase' = "error"
              /\ error' = "TypeError"
              /\ UNCHANGED << nodes, stack >>
         ELSE /\ IF cutoff(pruning, alpha, beta)
                 THEN /\ nodes' = [m \in NodeSet |->
                                     IF m \in rem THEN [nodes[m] EXCEPT !.pruned = TRUE]
                                                  ELSE nodes[m]]
                      /\ stack' = SetTop([Top EXCEPT !.value = value, !.best_child = best,
                                            !.alpha = alpha, !.beta = beta, !.at = "exit"])
                 ELSE /\ nodes' = nodes
                      /\ stack' = SetTop([Top EXCEPT !.value = value, !.best_child = best,
                                            !.alpha = alpha, !.beta = beta, !.at = "loop"])
              /\ UNCHANGED << phase, error >>
  /\ UNCHANGED << tree_data, pruning, ret, entered, written, fresh, runs, mcts_vars >>

\* after the loop: node.value = value; return value  (lines 495, 517)
ExitNode ==
  /\ phase = "minimax" /\ stack # <<>>
  /\ \/ Top.at = "exit"
     \/ Top.at = "loop" /\ NextUnpruned(Top.node, Top.i) = 0
  /\ nodes' = [nodes EXCEPT ![Top.node].value = Top.value]
  /\ written' = written \cup {Top.node}
  /\ ret' = Top.value
  /\ stack' = Pop
  /\ UNCHANGED << tree_data, phase, error, pruning, entered, fresh, runs, mcts_vars >>

\* run_minimax after the call: the result shown is self.root.value (lines 294-303)
FinishMinimax ==
  /\ phase = "minimax" /\ stack = <<>>
  /\ phase' = "done"
  /\ runs' = Append(runs, [pruning |-> pruning, returned |-> ret,
                           shown |-> nodes[Root].value, nodes |-> nodes,
                           entered |-> entered, written |-> written])
  /\ UNCHANGED << tree_data, nodes, error, pruning, stack, ret, entered, written,
                  fresh, mcts_vars >>

\* GameTreeVisualizer.__init__ on the same tree_data with config pruning = p:
\* a second scene with a freshly built tree (lines 53-76)
Construct(p) ==
  /\ phase = "done"
  /\ Len(runs) = 1
  /\ pruning' = p
  /\ nodes' = build_tree(tree_data)
  /\ phase' = "ready"
  /\ fresh' = TRUE
  /\ stack' = <<>>
  /\ entered' = <<>>
  /\ written' = {}
  /\ UNCHANGED << tree_data, error, ret, runs, mcts_vars >>

MctsIdle ==
  /\ iterations = 0 /\ iteration = 0 /\ selected_node = NoNode
  /\ expanded_node = NoNode /\ simulation_result = None /\ current = NoNode
  /\ best_child = NoNode /\ iter0 = <<>>

Init ==
  /\ tree_data \in TreeSpecs
  /\ nodes = build_tree(tree_data)
  /\ pruning = FALSE
  /\ phase = "ready"
  /\ error = "none"
  /\ stack = <<>>
  /\ ret = None
  /\ entered = <<>>
  /\ written = {}
  /\ fresh = TRUE
  /\ runs = <<>>
  /\ MctsIdle

Next ==
  \/ RunMinimax
  \/ EnterLeaf
  \/ EnterInternal
  \/ Descend
  \/ ProcessReturn
  \/ ExitNode
  \/ FinishMinimax
  \/ Construct(TRUE)

Spec == Init /\ [][Next]_vars


\* ----------------------------------------------------------------- MCTS
\* config.get("exploration_weight", 1.4), in tenths
exploration_weight == 14

\* UCB1 values are kept as integers: the float u is UcbScale * u.  UcbScale is
\* a multiple of every visit count up to 8, so wins / visits is exact, and
\* SqrtLog[P][n] is UcbScale * sqrt(ln(P) / n) rounded, for P, n in 1..8.
\* On these arguments the order and the equality of two scaled values are
\* those of the floats calculate_ucb computes.
UcbScale == 8400000
UcbInf == 2000000000        \* float("inf") as a UCB1 value
SqrtLog ==
  << << 0, 0, 0, 0, 0, 0, 0, 0 >>,
     << 6993459, 4945122, 4037675, 3496729, 3127570, 2855068, 2643279, 2472561 >>,
     << 8804435, 6225676, 5083243, 4402218, 3937463, 3594396, 3327764, 3112838 >>,
     << 9890244, 6993459, 5710135, 4945122, 4423052, 4037675, 3738161, 3496729 >>,
     << 10656544, 7535315, 6152559, 5328272, 4765752, 4350516, 4027795, 3767657 >>,
     << 11243956, 7950678, 6491701, 5621978, 5028450, 4590326, 4249816, 3975339 >>,
     << 11717654, 8285633, 6765191, 5858827, 5240294, 4783712, 4428857, 4142816 >>,
     << 12113026, 8565203, 6993459, 6056513, 5417110, 4945122, 4578293, 4282601 >> >>

\* get_node_by_id: the first node, in preorder, carrying the id (lines 597-609)
get_node_by_id(i) ==
  LET found == { n \in NodeSet : nodes[n].id = i }
  IN  CHOOSE n \in found : \A m \in found : n <= m

\* calculate_ucb (lines 672-692), w10 being the exploration weight in tenths
calculate_ucb(n, w10) ==
  IF nodes[n].visits = 0 THEN UcbInf
  ELSE LET exploitation == (nodes[n].wins * UcbScale) \div nodes[n].visits
           p == nodes[n].parent
       IN  IF p = NoNode THEN exploitation
           ELSE IF nodes[p].visits = 0 THEN UcbInf
           ELSE exploitation
                  + (w10 * SqrtLog[nodes[p].visits][nodes[n].visits]) \div 10

\* mutant: the unvisited child is not given precedence over the visited ones
RECURSIVE best_children_no_early(_, _, _, _, _)
best_children_no_early(n, w10, k, best_value, best) ==
  IF k > Len(Children(n)) THEN SeqToSet(best)
  ELSE LET child == Children(n)[k]
           ucb == IF nodes[child].visits = 0 THEN NegInf ELSE calculate_ucb(child, w10)
       IN  IF ucb > best_value
              THEN best_children_no_early(n, w10, k + 1, ucb, << child >>)
           ELSE IF ucb = best_value
              THEN best_children_no_early(n, w10, k + 1, best_value, Append(best, child))
           ELSE best_children_no_early(n, w10, k + 1, best_value, best)

\* mutant: a child whose UCB1 value ties the best does not join the list
RECURSIVE best_children_first_only(_, _, _, _, _)
best_children_first_only(n, w10, k, best_value, best) ==
  IF k > Len(Children(n)) THEN SeqToSet(best)
  ELSE LET child == Children(n)[k]
           ucb == calculate_ucb(child, w10)
       IN  IF nodes[child].visits = 0 THEN {child}
           ELSE IF ucb > best_value
              THEN best_children_first_only(n, w10, k + 1, ucb, << child >>)
           ELSE best_children_first_only(n, w10, k + 1, best_value, best)

\* the loop of get_best_child (lines 696-715) from child k on: the set of
\* nodes the call can return.  An unvisited child is returned at once; else
\* random.choice picks among best_children (none if the list is empty).
RECURSIVE best_children(_, _, _, _, _)
best_children(n, w10, k, best_value, best) ==
  IF k > Len(Children(n)) THEN SeqToSet(best)
  ELSE LET child == Children(n)[k]
           ucb == calculate_ucb(child, w10)
       IN  IF nodes[child].visits = 0 THEN {child}
           ELSE IF ucb > best_value
              THEN best_children(n, w10, k + 1, ucb, << child >>)
           ELSE IF ucb = best_value
              THEN best_children(n, w10, k + 1, best_value, Append(best, child))
           ELSE best_children(n, w10, k + 1, best_value, best)

get_best_child(n, w10) == best_children(n, w10, 1, NegInf, <<>>)

\* mutant: any(...) in place of all(...)
SomeChildVisited(n) == \E c \in SeqToSet(Children(n)) : nodes[c].visits > 0

\* line 628: all(child.visits > 0 for child in current_node.children)
AllChildrenVisited(n) == \A c \in SeqToSet(Children(n)) : nodes[c].visits > 0
Unvisited(n) == { c \in SeqToSet(Children(n)) : nodes[c].visits = 0 }

\* where run_mcts goes at the head of its for loop (line 540)
LoopHead(it) == IF it <= iterations THEN "selection" ELSE "recommend"

\* mutant: the reset also detaches the node from its parent
reset_stats_and_parent(node) ==
  [node EXCEPT !.visits = 0, !.wins = 0, !.ucb = 0, !.parent = NoNode]

\* lines 535-537: the three assignments of the reset loop
reset_stats(node) == [node EXCEPT !.visits = 0, !.wins = 0, !.ucb = 0]

\* run_mcts up to the loop: the statistics of every node are reset (lines 530-537)
RunMcts ==
  /\ phase = "ready"
  /\ LET reset == { get_node_by_id(nodes[n].id) : n \in NodeSet }
         ns    == [n \in NodeSet |->
                     IF n \in reset THEN reset_stats(nodes[n]) ELSE nodes[n]]
     IN  /\ nodes' = ns
         /\ iter0' = ns
  /\ iteration' = 1
  /\ phase' = LoopHead(1)
  /\ current' = Root
  /\ UNCHANGED << tree_data, error, mm_vars, iterations, selected_node, expanded_node,
                  simulation_result, best_child >>

\* mcts_selection, one turn of its while loop (lines 626-643)
SelectionStep ==
  /\ phase = "selection"
  /\ ~IsLeaf(current) /\ AllChildrenVisited(current)
  /\ current' \in get_best_child(current, exploration_weight)
  /\ UNCHANGED << tree_data, nodes, phase, error, mm_vars, iterations, iteration,
                  selected_node, expanded_node, simulation_result, best_child, iter0 >>

\* mcts_selection returns current_node (line 670)
SelectionDone ==
  /\ phase = "selection"
  /\ ~(~IsLeaf(current) /\ AllChildrenVisited(current))
  /\ selected_node' = current
  /\ phase' = "expansion"
  /\ UNCHANGED << tree_data, nodes, error, mm_vars, iterations, iteration,
                  expanded_node, simulation_result, current, best_child, iter0 >>

\* mutant: the child is drawn from all children, visited or not
mcts_expansion_any_child(n) ==
  IF Unvisited(n) # {} THEN SeqToSet(Children(n)) ELSE {n}

\* mutant: the node itself is returned, unvisited children or not
mcts_expansion_self(n) == {n}

\* the nodes mcts_expansion can return (lines 725-756)
mcts_expansion(n) == IF Unvisited(n) # {} THEN Unvisited(n) ELSE {n}

\* mutant: the expansion is tried on an unvisited node too
needs_expansion_unvisited(n) == ~IsLeaf(n)

\* line 549: selected_node.visits > 0 and selected_node.children
needs_expansion(n) == nodes[n].visits > 0 /\ ~IsLeaf(n)

\* phase 2 of run_mcts (lines 549-552)
Expansion ==
  /\ phase = "expansion"
  /\ \E e \in (IF needs_expansion(selected_node)
               THEN mcts_expansion(selected_node) ELSE {selected_node}) :
        /\ expanded_node' = e
        /\ current' = e
  /\ phase' = "simulation"
  /\ UNCHANGED << tree_data, nodes, error, mm_vars, iterations, iteration,
                  selected_node, simulation_result, best_child, iter0 >>

\* mutant: the playout may also step to a sibling's child
rollout_any_grandchild(n) ==
  IF nodes[n].parent = NoNode THEN SeqToSet(Children(n))
  ELSE UNION { SeqToSet(Children(m)) : m \in SeqToSet(Children(nodes[n].parent)) }

\* line 776: the nodes random.choice(current.children) can give
rollout_children(n) == SeqToSet(Children(n))

\* mcts_simulation, one turn of its while loop (lines 774-789)
SimulationStep ==
  /\ phase = "simulation"
  /\ ~IsLeaf(current)
  /\ current' \in rollout_children(current)
  /\ UNCHANGED << tree_data, nodes, phase, error, mm_vars, iterations, iteration,
                  selected_node, expanded_node, simulation_result, best_child, iter0 >>

\* mutant: the result is drawn from {0, 1} whatever the leaf holds
leaf_result_random(n) == {0, 1}

\* the results mcts_simulation can return at leaf n (lines 792-796)
leaf_result(n) == IF nodes[n].value # None THEN {nodes[n].value} ELSE {0, 1}

SimulationDone ==
  /\ phase = "simulation"
  /\ IsLeaf(current)
  /\ simulation_result' \in leaf_result(current)
  /\ current' = expanded_node
  /\ phase' = "backpropagation"
  /\ UNCHANGED << tree_data, nodes, error, mm_vars, iterations, iteration,
                  selected_node, expanded_node, best_child, iter0 >>

\* mutant: the result is added to wins
new_wins_add_result(wins, result) == wins + result

\* mutant: every result of at least 1 counts as a win
new_wins_ge(wins, result) == IF result >= 1 THEN wins + 1 ELSE wins

\* lines 829-830: wins after a simulation that gave result
new_wins(wins, result) == IF result = 1 THEN wins + 1 ELSE wins

\* mutant: a visit is counted twice
new_visits_twice(visits) == visits + 2

\* line 828: current.visits += 1
new_visits(visits) == visits + 1

\* mutant: the walk ends after the first node
next_up_stop(n) == NoNode

\* line 867: current = current.parent
next_up(n) == nodes[n].parent

\* mcts_backpropagation, one turn of its while loop (lines 826-867)
BackpropagationStep ==
  /\ phase = "backpropagation"
  /\ current # NoNode
  /\ nodes' = [nodes EXCEPT ![current].visits = new_visits(@),
                            ![current].wins = new_wins(@, simulation_result)]
  /\ current' = next_up(current)
  /\ UNCHANGED << tree_data, phase, error, mm_vars, iterations, iteration,
                  selected_node, expanded_node, simulation_result, best_child, iter0 >>

\* mcts_backpropagation returns; the for loop of run_mcts goes on (line 540)
BackpropagationDone ==
  /\ phase = "backpropagation"
  /\ current = NoNode
  /\ iteration' = iteration + 1
  /\ phase' = LoopHead(iteration + 1)
  /\ current' = Root
  /\ iter0' = nodes
  /\ UNCHANGED << tree_data, nodes, error, mm_vars, iterations, selected_node,
                  expanded_node, simulation_result, best_child >>

\* the end of run_mcts (lines 568-595): the recommendation and its win rate
\* best_child.wins / best_child.visits
Recommend ==
  /\ phase = "recommend"
  /\ IF get_best_child(Root, 0) = {}
     THEN \* random.choice of an empty list
          /\ best_child' = NoNode
          /\ error' = "IndexError"
          /\ phase' = "error"
     ELSE \E b \in get_best_child(Root, 0) :
            /\ best_child' = b
            /\ IF nodes[b].visits = 0
               THEN error' = "ZeroDivisionError" /\ phase' = "error"
               ELSE error' = "none" /\ phase' = "mcts_done"
  /\ UNCHANGED << tree_data, nodes, mm_vars, iterations, iteration, selected_node,
                  expanded_node, simulation_result, current, iter0 >>

InitMCTS ==
  /\ tree_data \in MctsTreeSpecs
  /\ nodes = build_tree(tree_data)
  /\ pruning = FALSE
  /\ phase = "ready"
  /\ error = "none"
  /\ stack = <<>>
  /\ ret = None
  /\ entered = <<>>
  /\ written = {}
  /\ fresh = TRUE
  /\ runs = <<>>
  /\ iterations \in 1..MaxIterations
  /\ iteration = 0 /\ selected_node = NoNode /\ expanded_node = NoNode
  /\ simulation_result = None /\ current = NoNode /\ best_child = NoNode
  /\ iter0 = <<>>

NextMCTS ==
  \/ RunMcts
  \/ SelectionStep
  \/ SelectionDone
  \/ Expansion
  \/ SimulationStep
  \/ SimulationDone
  \/ BackpropagationStep
  \/ BackpropagationDone
  \/ Recommend

SpecMCTS == InitMCTS /\ [][NextMCTS]_vars

\* =================================================== properties of minimax
RECURSIVE Subtree(_)
Subtree(n) == {n} \cup UNION { Subtree(c) : c \in SeqToSet(Children(n)) }

NodeById(i) == CHOOSE n \in NodeSet : nodes[n].id = i
Entered == SeqToSet(entered)
PrunedNodes == { n \in NodeSet : nodes[n].pruned }
ChildValues(n) == { nodes[c].value : c \in SeqToSet(Children(n)) }
SetMax(S) == CHOOSE x \in S : \A y \in S : y <= x
SetMin(S) == CHOOSE x \in S : \A y \in S : x <= y

\* the run with pruning disabled is over and the run with pruning enabled,
\* on a tree built again from the same tree_data, is over too
BothRunsDone == Len(runs) = 2 /\ ~runs[1].pruning /\ runs[2].pruning

\* C1: the run with pruning enabled returns the same root value as the run
\* with pruning disabled on an identically built fresh tree.
C1_PruningEquivalence ==
  BothRunsDone => /\ runs[2].returned = runs[1].returned
                  /\ runs[2].shown = runs[1].shown

\* some cutoff happened in the pruned run, below the root's first child
C1_Witness ==
  /\ BothRunsDone
  /\ \E n \in NodeSet : runs[2].nodes[n].pruned /\ runs[2].nodes[n].depth >= 2
  /\ runs[2].returned = runs[1].returned

\* C2: with pruning disabled, after the run on a fresh tree every internal MAX
\* node stores the maximum of its children's values, every internal MIN node
\* the minimum, every leaf keeps its static value, and the value returned for
\* the root is the root's stored value.
C2_PlainMinimaxValues ==
  (phase = "done" /\ ~pruning) =>
     /\ \A n \in NodeSet :
          IF IsLeaf(n)
          THEN nodes[n].value = build_tree(tree_data)[n].value
          ELSE nodes[n].value = IF nodes[n].is_max_node THEN SetMax(ChildValues(n))
                                                        ELSE SetMin(ChildValues(n))
     /\ runs[Len(runs)].returned = nodes[Root].value

\* a finished plain run on a tree of depth 3 whose root value is not the value
\* of the last leaf evaluated
C2_Witness ==
  /\ phase = "done" /\ ~pruning
  /\ \E n \in NodeSet : nodes[n].depth = 3
  /\ nodes[Root].value # nodes[entered[Len(entered)]].value

\* C3: with pruning enabled the nodes entered are among those entered with
\* pruning disabled, and a child marked pruned is never entered and never has
\* its value written, nor has any of its descendants.
C3_PrunedSubset ==
  (pruning /\ Len(runs) >= 1) =>
     /\ Entered \subseteq SeqToSet(runs[1].entered)
     /\ \A n \in PrunedNodes : \A m \in Subtree(n) : m \notin Entered /\ m \notin written

\* the pruned run is over and an internal node was cut off
C3_Witness ==
  /\ pruning /\ phase = "done"
  /\ \E n \in PrunedNodes : ~IsLeaf(n)
  /\ Entered # SeqToSet(runs[1].entered)

\* C8: on root(MAX) -> A(MIN; 3, 5), B(MIN; 2, 9) the run returns 3 with
\* pruning on or off; with pruning, B is entered with alpha = 3, its first
\* leaf sets beta = 2, and its second leaf is the only node marked pruned and
\* is never entered.
C8_Example ==
  tree_data = ExampleTree =>
     /\ \A r \in 1..Len(runs) : runs[r].returned = 3 /\ runs[r].shown = 3
     /\ pruning =>
          /\ NodeById("B") \in Entered => nodes[NodeById("B")].alpha = 3
          /\ \A k \in 1..Len(stack) :
               (stack[k].node = NodeById("B") /\ stack[k].i >= 1 /\ stack[k].at # "call")
                  => stack[k].beta = 2 /\ stack[k].alpha = 3
          /\ PrunedNodes \subseteq {NodeById("b2")}
          /\ NodeById("b2") \notin Entered
          /\ phase = "done" => PrunedNodes = {NodeById("b2")}

C8_Witness ==
  /\ tree_data = ExampleTree /\ pruning /\ phase = "done"
  /\ runs[2].returned = 3
  /\ nodes[NodeById("b2")].pruned

\* the window a child is entered with: its parent's window at entry, narrowed
\* by the values of the siblings before it
EarlierSiblings(n) ==
  LET p == nodes[n].parent
      k == CHOOSE j \in 1..Len(Children(p)) : Children(p)[j] = n
  IN  { Children(p)[j] : j \in 1..(k - 1) }
EntryAlpha(n) ==
  LET p == nodes[n].parent
  IN  IF nodes[p].is_max_node
      THEN SetMax({nodes[p].alpha} \cup { nodes[m].value : m \in EarlierSiblings(n) })
      ELSE nodes[p].alpha
EntryBeta(n) ==
  LET p == nodes[n].parent
  IN  IF nodes[p].is_max_node
      THEN nodes[p].beta
      ELSE SetMin({nodes[p].beta} \cup { nodes[m].value : m \in EarlierSiblings(n) })

\* C9 as stated: with pruning disabled every node entered records
\* alpha = -infinity and beta = +infinity.
C9_FixedWindow ==
  ~pruning => \A n \in Entered : nodes[n].alpha = NegInf /\ nodes[n].beta = PosInf

\* C9 (amended): with pruning disabled the root is entered with alpha =
\* -infinity and beta = +infinity and no node is ever marked pruned; every
\* other node is entered with its parent's window narrowed by the values of
\* the siblings evaluated before it.
C9_NarrowedWindow ==
  ~pruning =>
     /\ Root \in Entered => nodes[Root].alpha = NegInf /\ nodes[Root].beta = PosInf
     /\ PrunedNodes = {}
     /\ \A n \in Entered \ {Root} :
          nodes[n].alpha = EntryAlpha(n) /\ nodes[n].beta = EntryBeta(n)

\* a plain run in which a node was entered with a window narrowed on both sides
C9_Witness ==
  /\ ~pruning /\ phase = "done"
  /\ \E n \in Entered : nodes[n].alpha # NegInf /\ nodes[n].beta # PosInf

\* C10 as stated: with pruning enabled or disabled, alpha <= beta holds on
\* entry to every node the evaluation enters.
C10_AlphaLeBetaOnEntry ==
  \A n \in Entered : nodes[n].alpha <= nodes[n].beta

\* C10 (amended): with pruning enabled, alpha <= beta holds on entry to every
\* node entered, and an activation that has reached beta <= alpha leaves its
\* loop without entering another child.
C10_AlphaLeBetaPruning ==
  pruning =>
     /\ \A n \in Entered : nodes[n].alpha <= nodes[n].beta
     /\ \A k \in 1..Len(stack) :
          (stack[k].at # "enter" /\ stack[k].beta <= stack[k].alpha)
             => stack[k].at = "exit" /\ k = Len(stack)

\* a cutoff with beta = alpha, children remaining
C10_Witness ==
  /\ pruning /\ stack # <<>>
  /\ Top.at = "exit" /\ Top.beta = Top.alpha
  /\ Top.i < Len(Children(Top.node))


\* ====================================================== properties of MCTS
RECURSIVE PathToRoot(_)
PathToRoot(n) == IF n = NoNode THEN {} ELSE {n} \cup PathToRoot(nodes[n].parent)

RootChildren == SeqToSet(Children(Root))
RecommendDone == phase \in {"mcts_done", "error"}
InIteration == phase \in {"selection", "expansion", "simulation", "backpropagation"}

\* C4 as stated: for every N >= 1 and every tree whose root has a child, the
\* MCTS run completes without error and recommends a root child with
\* visits > 0, whose win rate is wins / visits.
C4_RunCompletes ==
  (RecommendDone /\ RootChildren # {}) =>
     /\ error = "none"
     /\ best_child \in RootChildren
     /\ nodes[best_child].visits > 0

\* C5: in an MCTS run, for every node, 0 <= wins <= visits and visits = 0
\* implies wins = 0; within an iteration visits grows by 1 on the nodes of the
\* backpropagation path and by 0 elsewhere, wins by at most as much ...
C5_Counts ==
  phase # "ready" =>
    \A n \in NodeSet :
      /\ 0 <= nodes[n].wins /\ nodes[n].wins <= nodes[n].visits
      /\ nodes[n].visits = 0 => nodes[n].wins = 0
      /\ LET dv == nodes[n].visits - iter0[n].visits
             dw == nodes[n].wins - iter0[n].wins
         IN  /\ 0 <= dw /\ dw <= dv /\ dv <= 1
             /\ dv = 1 => phase = "backpropagation" /\ n \in PathToRoot(expanded_node)
             /\ (phase = "backpropagation" /\ current = NoNode)
                  => dv = IF n \in PathToRoot(expanded_node) THEN 1 ELSE 0

\* ... and visits never decreases.
C5_Monotonic ==
  \A n \in NodeSet : nodes'[n].visits >= nodes[n].visits

C5_VisitsAndWins == [](C5_Counts) /\ [][C5_Monotonic]_vars

\* a backpropagation over three nodes is over, and a node that was visited
\* before has fewer wins than visits
C5_Witness ==
  /\ phase = "backpropagation" /\ current = NoNode
  /\ Cardinality(PathToRoot(expanded_node)) >= 3
  /\ simulation_result = 1
  /\ \E n \in NodeSet : 0 < nodes[n].wins /\ nodes[n].wins < nodes[n].visits

\* the child at the lowest index among the root's unvisited children
FirstUnvisited ==
  LET ks == { k \in 1..Len(Children(Root)) : nodes[Children(Root)[k]].visits = 0 }
  IN  Children(Root)[CHOOSE k \in ks : \A j \in ks : k <= j]

\* C6 as stated: get_best_child(root, 0) never returns a child with
\* visits = 0 when at least one root child has visits > 0.
C6_NoUnvisitedChild ==
  (RecommendDone /\ \E c \in RootChildren : nodes[c].visits > 0)
     => nodes[best_child].visits > 0

\* C6 (amended): get_best_child(root, 0) returns the lowest-index child with
\* visits = 0 whenever some root child is unvisited, whether or not other
\* children have been visited; it returns a child with visits > 0 only when
\* every root child has been visited.
C6_FirstUnvisitedChild ==
  (RecommendDone /\ RootChildren # {}) =>
     IF Unvisited(Root) # {} THEN best_child = FirstUnvisited
                             ELSE nodes[best_child].visits > 0

\* the recommendation is an unvisited child that is not the first child,
\* all children before it having been visited
C6_Witness ==
  /\ RecommendDone /\ RootChildren # {}
  /\ nodes[best_child].visits = 0
  /\ best_child # Children(Root)[1]
  /\ nodes[Children(Root)[1]].visits > 0

\* the root children of maximal win rate wins / visits
MaxWinRate ==
  { c \in RootChildren : \A d \in RootChildren :
       nodes[c].wins * nodes[d].visits >= nodes[d].wins * nodes[c].visits }

\* C7: when every root child has visits > 0 at the end of the run, the
\* recommended child has maximal win rate among the root children, and the
\* children the recommendation is chosen among are all those of maximal rate.
C7_MaxWinRate ==
  (phase = "mcts_done" /\ AllChildrenVisited(Root)) =>
     /\ best_child \in MaxWinRate
     /\ get_best_child(Root, 0) = MaxWinRate

\* some but not all root children tie at the maximal, non-zero rate and one
\* that is not the first child is recommended
C7_Witness ==
  /\ phase = "mcts_done" /\ AllChildrenVisited(Root)
  /\ Cardinality(MaxWinRate) >= 2 /\ MaxWinRate # RootChildren
  /\ best_child # Children(Root)[1] /\ Children(Root)[1] \in MaxWinRate
  /\ nodes[best_child].wins > 0


\* ============================================ construction from any input
\* The scene is constructed from whatever parse_tree_data loaded and whatever
\* the configuration holds: build_tree and run_mcts check neither.
Missing == "<missing>"       \* a node_data dict without the key "id"

Node(i, v, c) == [id |-> i, value |-> v, children |-> c]

\* tree specifications the builder is given: well-formed ones and ones with a
\* missing id, a duplicated id, a node with children and a value, a leaf
\* without a value
AnyTreeSpecs ==
  { [root |-> Node("root", None, << Leaf("a", v[1]), Leaf("b", v[2]) >>)] :
      v \in [1..2 -> 0..1] }
  \cup
  { ExampleTree,
    [root |-> Node("root", None, << Leaf("a", 1), Leaf("a", 2) >>)],
    [root |-> Node("root", None, << Leaf(Missing, 1), Leaf("b", 2) >>)],
    [root |-> Node(Missing, None, << Leaf("a", 1) >>)],
    [root |-> Node("root", None,
                   << Node("A", 7, << Leaf("a1", 1), Leaf("a2", 2) >>), Leaf("b", 0) >>)],
    [root |-> Node("root", None, << Leaf("a", 1), Leaf("b", None) >>)],
    [root |-> Node("root", None, << Leaf("b", None), Leaf("a", 1) >>)],
    [root |-> Leaf("root", None)] }

\* node_data["id"] raises KeyError at the first node_data without the key
\* (lines 84 and 98): build_tree raises iff some node_data lacks it
RECURSIVE HasMissingId(_)
HasMissingId(node_data) ==
  \/ node_data.id = Missing
  \/ \E k \in 1..Len(node_data.children) : HasMissingId(node_data.children[k])

MaxAnyIterations == 4   \* mcts_iterations is drawn from -1..MaxAnyIterations here

\* GameTreeVisualizer.__init__ (lines 53-76): self.root = self.build_tree(tree_data)
BuildScene ==
  /\ phase = "new"
  /\ IF HasMissingId(tree_data.root)
     THEN /\ phase' = "error"
          /\ error' = "KeyError"
          /\ nodes' = nodes
     ELSE /\ phase' = "ready"
          /\ error' = error
          /\ nodes' = build_tree(tree_data)
  /\ UNCHANGED << tree_data, mm_vars, mcts_vars >>

InitAny ==
  /\ tree_data \in AnyTreeSpecs
  /\ nodes = <<>>
  /\ pruning \in BOOLEAN
  /\ phase = "new"
  /\ error = "none"
  /\ stack = <<>>
  /\ ret = None
  /\ entered = <<>>
  /\ written = {}
  /\ fresh = TRUE
  /\ runs = <<>>
  /\ iterations \in (0 - 1)..MaxAnyIterations
  /\ iteration = 0 /\ selected_node = NoNode /\ expanded_node = NoNode
  /\ simulation_result = None /\ current = NoNode /\ best_child = NoNode
  /\ iter0 = <<>>

NextAny ==
  \/ BuildScene
  \/ RunMinimax
  \/ EnterLeaf
  \/ EnterInternal
  \/ Descend
  \/ ProcessReturn
  \/ ExitNode
  \/ FinishMinimax
  \/ RunMcts
  \/ SelectionStep
  \/ SelectionDone
  \/ Expansion
  \/ SimulationStep
  \/ SimulationDone
  \/ BackpropagationStep
  \/ BackpropagationDone
  \/ Recommend

SpecAny == InitAny /\ [][NextAny]_vars

\* the ids of a tree specification, in preorder
RECURSIVE IdsOf(_)
RECURSIVE IdsOfAll(_, _)
IdsOfAll(children_data, k) ==
  IF k > Len(children_data) THEN <<>>
  ELSE IdsOf(children_data[k]) \o IdsOfAll(children_data, k + 1)
IdsOf(node_data) == << node_data.id >> \o IdsOfAll(node_data.children, 1)

HasDuplicateId(node_data) ==
  \E j, k \in 1..Len(IdsOf(node_data)) :
     j # k /\ IdsOf(node_data)[j] = IdsOf(node_data)[k] /\ IdsOf(node_data)[j] # Missing

Built == phase # "new"

\* C11: once the scene has been constructed from a specification with a
\* missing id or with two nodes of the same id, the construction has failed
\* with TreeFormatError and no tree exists.
C11_BadIdsRejected ==
  (Built /\ (HasMissingId(tree_data.root) \/ HasDuplicateId(tree_data.root)))
     => (error = "TreeFormatError" /\ nodes = <<>>)

\* some node of the specification has both children and a value, or neither
RECURSIVE HasMalformedNode(_)
HasMalformedNode(node_data) ==
  \/ node_data.children # <<>> /\ node_data.value # None
  \/ node_data.children = <<>> /\ node_data.value = None
  \/ \E k \in 1..Len(node_data.children) : HasMalformedNode(node_data.children[k])

\* C12: once the scene has been constructed from a specification in which a
\* node has both children and a value, or no children and no value, the
\* construction has failed with TreeFormatError, no tree exists, and hence no
\* minimax or MCTS run meets the node or fails because of it.
C12_BadShapeRejected ==
  (Built /\ HasMalformedNode(tree_data.root))
     => (error = "TreeFormatError" /\ nodes = <<>> /\ phase = "error")

\* a minimax run that fails on a leaf without a value
C12_SearchTimeError ==
  /\ HasMalformedNode(tree_data.root)
  /\ phase = "error" /\ error = "TypeError" /\ entered # <<>>

\* run_mcts has been called (its loop variable has been set up)
MctsStarted == iteration >= 1

\* C13: an MCTS run with mcts_iterations < 1 has, once started, been rejected
\* with ConfigError, and no node has visits or wins.
C13_BadConfigRejected ==
  (MctsStarted /\ iterations < 1)
     => /\ phase = "error" /\ error = "ConfigError"
        /\ \A n \in NodeSet : nodes[n].visits = 0 /\ nodes[n].wins = 0

\* what the run does instead: it goes to the recommendation and fails there
C13_FailsAtRecommendation ==
  /\ MctsStarted /\ iterations < 1
  /\ phase = "error" /\ error \in {"ZeroDivisionError", "IndexError"}


\* ================================================ the phases of an iteration
Leaves(n) == { l \in Subtree(n) : IsLeaf(l) }

\* C14 as stated: the result handed to backpropagation is 0 or 1.
C14_ResultIsZeroOrOne ==
  phase = "backpropagation" => simulation_result \in {0, 1}

\* C14 amended: the result handed to backpropagation is the static value of a
\* leaf below the expansion node, whatever number that is; on the trees here
\* every leaf has a value.
C14_ResultIsLeafValue ==
  phase = "backpropagation" =>
     \E l \in Leaves(expanded_node) : simulation_result = nodes[l].value

\* a result that is neither a win nor a loss is being backpropagated
C14_Witness ==
  /\ phase = "backpropagation"
  /\ simulation_result \notin {0, 1}
  /\ \E l \in Leaves(expanded_node) : simulation_result = nodes[l].value


\* ===================================================== cutoffs and best child
\* the children of the node of frame f at an index above the one just processed
HigherChildren(f) == SeqToSet(SubSeq(Children(f.node), f.i + 1, Len(Children(f.node))))

\* an activation that has processed a child and holds beta <= alpha has left
\* its loop, is the innermost one, and every child at a higher index is marked
\* pruned with nothing of its subtree entered
C15_CutoffState ==
  pruning =>
     \A k \in 1..Len(stack) :
        (stack[k].at \in {"loop", "exit"} /\ stack[k].i >= 1
           /\ stack[k].beta <= stack[k].alpha)
        => /\ stack[k].at = "exit" /\ k = Len(stack)
           /\ \A c \in HigherChildren(stack[k]) :
                 nodes[c].pruned /\ Subtree(c) \cap Entered = {}

\* the activation that has cut off returns without another call, and a node
\* marked pruned stays so and nothing below it is entered later in the run
C15_CutoffStep ==
  (pruning /\ phase = "minimax") =>
     /\ (stack # <<>> /\ Top.at = "exit") => stack' = Pop
     /\ \A n \in PrunedNodes :
           nodes'[n].pruned /\ Subtree(n) \cap SeqToSet(entered') = {}

\* C15: with pruning enabled, whenever beta <= alpha holds after a child has
\* been processed and alpha/beta updated, every child at a higher index is
\* marked pruned, the loop stops at once, and none of these children or of
\* their descendants is entered afterwards in the run.
C15_CutoffStops == [](C15_CutoffState) /\ [][C15_CutoffStep]_vars

\* a cutoff that leaves two children unprocessed
C15_Witness ==
  /\ pruning /\ phase = "minimax" /\ stack # <<>>
  /\ Top.at = "exit" /\ Top.i >= 1 /\ Top.beta <= Top.alpha
  /\ Cardinality(HigherChildren(Top)) >= 2
  /\ \A c \in HigherChildren(Top) : nodes[c].pruned


\* C16 as stated: the expansion node is an unvisited child of the selection
\* node whenever there is one, the selection node itself otherwise.
C16_ExpandsWheneverUnvisited ==
  phase = "simulation" =>
     IF Unvisited(selected_node) # {}
     THEN expanded_node \in Unvisited(selected_node)
     ELSE expanded_node = selected_node

\* C16 amended: the expansion node is an unvisited child of the selection node
\* when the selection node itself has visits > 0 and has such a child; it is
\* the selection node itself otherwise (selection node not visited yet, leaf,
\* or all children visited).
C16_ExpandsVisitedNode ==
  phase = "simulation" =>
     IF nodes[selected_node].visits > 0 /\ Unvisited(selected_node) # {}
     THEN expanded_node \in Unvisited(selected_node)
     ELSE expanded_node = selected_node

\* below the root, a visited node with a visited and an unvisited child has
\* been selected and its unvisited child is the expansion node
C16_Witness ==
  /\ phase = "simulation"
  /\ selected_node # Root
  /\ nodes[selected_node].visits > 0
  /\ Unvisited(selected_node) # {}
  /\ Unvisited(selected_node) # SeqToSet(Children(selected_node))
  /\ expanded_node \in Unvisited(selected_node)


ProperAncestors(n) == PathToRoot(n) \ {n}
WalkedThrough(n) == \A a \in ProperAncestors(n) : ~IsLeaf(a) /\ Unvisited(a) = {}
StopsHere(n) == IsLeaf(n) \/ Unvisited(n) # {}

\* every node selection has walked through has children, all of them visited;
\* the node it has returned is a leaf or has an unvisited child
C17_SelectionState ==
  /\ phase = "selection" => WalkedThrough(current)
  /\ phase = "expansion" => WalkedThrough(selected_node) /\ StopsHere(selected_node)

\* selection starts at the root, moves to a child of the current node and only
\* when that node has children, all visited, and returns the node it stands on
C17_SelectionStep ==
  /\ (phase # "selection" /\ phase' = "selection") => current' = Root
  /\ (phase = "selection" /\ phase' = "selection") =>
        \/ current' = current
        \/ /\ current' \in SeqToSet(Children(current))
           /\ ~IsLeaf(current) /\ Unvisited(current) = {}
  /\ (phase = "selection" /\ phase' # "selection") =>
        /\ phase' = "expansion" /\ selected_node' = current
        /\ StopsHere(current)

\* C17: selection starts at the root and moves from a node to one of its
\* children only while the node has a child and all its children have
\* visits > 0; the node returned is the first on the walked path that is a
\* leaf or has an unvisited child.
C17_Selection == [](C17_SelectionState) /\ [][C17_SelectionStep]_vars

\* selection has walked from the root, all of whose children are visited, to
\* a child that has an unvisited child of its own, and has returned it
C17_Witness ==
  /\ phase = "expansion"
  /\ selected_node \in RootChildren
  /\ Unvisited(Root) = {}
  /\ ~IsLeaf(selected_node) /\ Unvisited(selected_node) # {}


\* the nodes backpropagation has updated so far: from the expansion node up
\* to, not including, the cursor
Updated == PathToRoot(expanded_node) \ PathToRoot(current)

\* C18: backpropagation of result r from expansion node e adds 1 to visits on
\* e and on each of its ancestors up to the root, adds 1 to wins on exactly
\* these nodes iff r = 1, and leaves visits and wins of every other node as
\* they were when the iteration began (at every point of the upward walk: the
\* nodes updated are those between e and the cursor).
C18_Backpropagation ==
  phase = "backpropagation" =>
     \A n \in NodeSet :
        /\ nodes[n].visits = iter0[n].visits + (IF n \in Updated THEN 1 ELSE 0)
        /\ nodes[n].wins = iter0[n].wins
                             + (IF n \in Updated /\ simulation_result = 1 THEN 1 ELSE 0)

\* a walk from below the root has ended: a result other than 1 has left the
\* wins alone, and a node off the path holds earlier visits
C18_Witness ==
  /\ phase = "backpropagation" /\ current = NoNode
  /\ expanded_node # Root
  /\ simulation_result > 1
  /\ Updated = PathToRoot(expanded_node)
  /\ \E n \in NodeSet \ Updated : nodes[n].visits > 0
  /\ \E n \in Updated : iter0[n].wins > 0 /\ nodes[n].wins = iter0[n].wins


\* the rollout stands inside the subtree of the expansion node
C19_SimulationState ==
  phase = "simulation" => current \in Subtree(expanded_node)

\* a step of the simulation changes no node; it moves the cursor to a child,
\* or ends at a leaf with that leaf's static value as the result when the leaf
\* has one
C19_SimulationStep ==
  /\ (phase # "simulation" /\ phase' = "simulation") => current' = expanded_node'
  /\ phase = "simulation" =>
       /\ nodes' = nodes
       /\ \/ /\ phase' = "simulation"
             /\ current' = current \/ current' \in SeqToSet(Children(current))
          \/ /\ phase' = "backpropagation"
             /\ IsLeaf(current) /\ current \in Subtree(expanded_node)
             /\ nodes[current].value # None => simulation_result' = nodes[current].value

\* C19: the simulation walks from the expansion node through children only,
\* ends at a leaf of the expansion node's subtree, returns the leaf's static
\* value when it has one, and changes no node's visits, wins or value.
C19_Simulation == [](C19_SimulationState) /\ [][C19_SimulationStep]_vars

\* a rollout from an internal expansion node below the root has walked down
\* to a leaf that is not a child of the expansion node
C19_Witness ==
  /\ phase = "simulation"
  /\ expanded_node # Root /\ ~IsLeaf(expanded_node)
  /\ IsLeaf(current)
  /\ current \in Subtree(expanded_node) \ SeqToSet(Children(expanded_node))
  /\ nodes[current].value # None


\* the indices of the children of frame f's node evaluated so far, and those
\* among them whose value equals the running value of f
EvaluatedIdx(f) == { j \in 1..f.i : ~nodes[Children(f.node)[j]].pruned }
TiedIdx(f) == { j \in EvaluatedIdx(f) : nodes[Children(f.node)[j]].value = f.value }
BetweenChildren(f) == f.at \in {"loop", "exit"} /\ f.i >= 1

\* in every activation, between two children and at the end of the loop, the
\* running value is the best of the evaluated children's values and the best
\* child is the evaluated child of lowest index holding that value
C20_BestChildState ==
  phase = "minimax" =>
     \A k \in 1..Len(stack) :
        BetweenChildren(stack[k]) =>
           /\ TiedIdx(stack[k]) # {}
           /\ stack[k].best_child = Children(stack[k].node)[SetMin(TiedIdx(stack[k]))]
           /\ \A j \in EvaluatedIdx(stack[k]) :
                 IF nodes[stack[k].node].is_max_node
                 THEN nodes[Children(stack[k].node)[j]].value <= stack[k].value
                 ELSE nodes[Children(stack[k].node)[j]].value >= stack[k].value

\* the best child is replaced only by the child just evaluated and only when
\* it is the first one or strictly better; the running value at the end of the
\* loop is the value the node is given
C20_BestChildStep ==
  /\ (phase = "minimax" /\ phase' = "minimax" /\ stack # <<>> /\ Top.at = "call"
        /\ stack'[Len(stack)].best_child # Top.best_child)
       => /\ stack'[Len(stack)].best_child = Children(Top.node)[Top.i]
          /\ stack'[Len(stack)].value = ret
          /\ \/ Top.best_child = NoNode
             \/ nodes[Top.node].is_max_node /\ ret > Top.value
             \/ ~nodes[Top.node].is_max_node /\ ret < Top.value
  /\ (phase = "minimax" /\ stack # <<>> /\ Len(stack') < Len(stack) /\ ~IsLeaf(Top.node))
       => nodes'[Top.node].value = Top.value

\* C20: at every internal node the running best is replaced only on a
\* strictly better child value (greater at MAX, smaller at MIN), so the best
\* child recorded is the lowest-index evaluated child whose value equals the
\* node's final value.
C20_BestChild == [](C20_BestChildState) /\ [][C20_BestChildStep]_vars

\* a node is about to be given its value: two evaluated children hold it and
\* the best child is the earlier of them, not the first child
C20_Witness ==
  /\ phase = "minimax" /\ stack # <<>>
  /\ BetweenChildren(Top) /\ NextUnpruned(Top.node, Top.i) = 0
  /\ Cardinality(TiedIdx(Top)) >= 2
  /\ Top.best_child = Children(Top.node)[SetMin(TiedIdx(Top))]
  /\ Top.best_child # Children(Top.node)[1]


\* ======================================= a second run on the same tree object
\* run_minimax called again on the scene whose first run is over (lines
\* 280-291): the same TreeNode objects, nothing is rebuilt or cleared
RunMinimaxAgain ==
  /\ phase = "done"
  /\ Len(runs) = 1
  /\ phase' = "minimax"
  /\ stack' = << Frame(Root, NegInf, PosInf) >>
  /\ entered' = <<>>
  /\ written' = {}
  /\ UNCHANGED << tree_data, nodes, error, pruning, ret, fresh, runs, mcts_vars >>

InitRerun ==
  /\ tree_data \in TreeSpecs
  /\ nodes = build_tree(tree_data)
  /\ pruning \in BOOLEAN
  /\ phase = "ready"
  /\ error = "none"
  /\ stack = <<>>
  /\ ret = None
  /\ entered = <<>>
  /\ written = {}
  /\ fresh = TRUE
  /\ runs = <<>>
  /\ MctsIdle

NextRerun ==
  \/ RunMinimax
  \/ EnterLeaf
  \/ EnterInternal
  \/ Descend
  \/ ProcessReturn
  \/ ExitNode
  \/ FinishMinimax
  \/ RunMinimaxAgain

SpecRerun == InitRerun /\ [][NextRerun]_vars

\* a minimax run has just begun: the root has not been entered yet
RunBegins == phase = "minimax" /\ entered = <<>>

\* C21: when a minimax run begins no node is marked pruned, also when an
\* earlier run on the same tree object marked some.
C21_NoPrunedAtStart ==
  RunBegins => PrunedNodes = {}

\* the second run begins with the marks the first run left
C21_StaleMarks ==
  RunBegins /\ Len(runs) = 1 /\ PrunedNodes # {}


\* ========================================================= the tree's shape
ShapeOf(node) ==
  [id |-> node.id, children |-> node.children, parent |-> node.parent,
   depth |-> node.depth, is_max_node |-> node.is_max_node]

TreeExists == phase # "new" /\ nodes # <<>>

\* C22: once the tree is built, at every point of a minimax run or of an MCTS
\* run and after it, every node has the id, the children sequence, the
\* parent, the depth and the MAX/MIN kind the builder gave it, and no node has
\* been added or removed.
C22_ShapeFixed ==
  TreeExists =>
     /\ Len(nodes) = Len(build_tree(tree_data))
     /\ \A n \in NodeSet : ShapeOf(nodes[n]) = ShapeOf(build_tree(tree_data)[n])

\* an MCTS run has ended with its recommendation on a tree of seven nodes, the
\* statistics of the nodes changed
C22_Witness ==
  /\ phase = "mcts_done"
  /\ Len(nodes) = 7
  /\ nodes # build_tree(tree_data)
  /\ \A n \in NodeSet : ShapeOf(nodes[n]) = ShapeOf(build_tree(tree_data)[n])


\* C23: in every built tree the root has depth 0 and is a MAX node; a child's
\* depth is its parent's plus 1 and its kind the opposite of its parent's, so
\* a node is MAX iff its depth is even; the parent of a node other than the
\* root is the node whose children sequence holds it (and only that one does),
\* and the root has no parent.
C23_DepthKindParent ==
  (phase = "ready" /\ fresh) =>
     /\ nodes[Root].depth = 0 /\ nodes[Root].is_max_node /\ nodes[Root].parent = NoNode
     /\ \A n \in NodeSet : nodes[n].is_max_node <=> (nodes[n].depth % 2 = 0)
     /\ \A p \in NodeSet : \A c \in SeqToSet(Children(p)) :
           /\ nodes[c].depth = nodes[p].depth + 1
           /\ nodes[c].is_max_node = ~nodes[p].is_max_node
           /\ nodes[c].parent = p
     /\ \A n \in NodeSet \ {Root} :
           /\ nodes[n].parent \in NodeSet
           /\ Cardinality({ k \in 1..Len(Children(nodes[n].parent)) :
                              Children(nodes[n].parent)[k] = n }) = 1
           /\ \A q \in NodeSet : n \in SeqToSet(Children(q)) => q = nodes[n].parent

\* a tree just built, with a MIN node at depth 3 and a MAX node at depth 2
C23_Witness ==
  /\ phase = "ready" /\ fresh
  /\ \E n \in NodeSet : nodes[n].depth = 3 /\ ~nodes[n].is_max_node
  /\ \E n \in NodeSet : nodes[n].depth = 2 /\ nodes[n].is_max_node /\ ~IsLeaf(n)


\* ============================================== counts between iterations
\* no backpropagation is under way: the node table is as the last completed
\* iteration left it
BetweenIterations ==
  phase \in {"selection", "expansion", "simulation", "recommend", "mcts_done", "error"}

\* the number of iterations completed
Completed == iteration - 1

RECURSIVE SumVisits(_, _)
SumVisits(children, k) ==
  IF k > Len(children) THEN 0 ELSE nodes[children[k]].visits + SumVisits(children, k + 1)

Visited == { n \in NodeSet : nodes[n].visits > 0 }

\* C24: after every completed iteration a node with children has visits equal
\* to the sum of its children's visits plus 1 if it has been visited, and only
\* unvisited children if it has not; so a child's visits never exceed its
\* parent's and the visited nodes form a connected subtree holding the root.
C24_VisitSums ==
  BetweenIterations =>
     /\ \A n \in NodeSet : ~IsLeaf(n) =>
           IF nodes[n].visits > 0
           THEN nodes[n].visits = SumVisits(Children(n), 1) + 1
           ELSE Unvisited(n) = SeqToSet(Children(n))
     /\ \A n \in NodeSet \ {Root} : nodes[n].visits <= nodes[nodes[n].parent].visits
     /\ \A n \in Visited : PathToRoot(n) \subseteq Visited

\* below the root a node has been visited three times, once itself and twice
\* through its children
C24_Witness ==
  /\ BetweenIterations
  /\ \E n \in NodeSet \ {Root} :
        /\ ~IsLeaf(n) /\ nodes[n].visits = 3
        /\ SumVisits(Children(n), 1) = 2


VisitedRootChildren == RootChildren \cap Visited
RunOver == phase \in {"recommend", "mcts_done", "error"}

\* C25: for a root with k >= 1 children, after iteration j, 1 <= j <= k + 1,
\* exactly j - 1 root children have visits > 0 (after the first iteration the
\* root alone has been updated), and at the end of the run all root children
\* are visited iff N >= k + 1.
C25_RootChildrenInTurn ==
  (BetweenIterations /\ ~IsLeaf(Root)) =>
     /\ (1 <= Completed /\ Completed <= Cardinality(RootChildren) + 1)
          => Cardinality(VisitedRootChildren) = Completed - 1
     /\ Completed = 1 => Visited = {Root}
     /\ RunOver => (Unvisited(Root) = {} <=> iterations >= Cardinality(RootChildren) + 1)

\* a run of exactly k + 1 iterations on a root with three children is over
C25_Witness ==
  /\ RunOver
  /\ Cardinality(RootChildren) = 3
  /\ iterations = 4 /\ Completed = 4
  /\ VisitedRootChildren = RootChildren


\* ============================================= the value a pruned run returns
\* the minimax value of node n on the static values of the leaves
RECURSIVE TrueValue(_)
TrueValue(n) ==
  IF IsLeaf(n) THEN build_tree(tree_data)[n].value
  ELSE IF nodes[n].is_max_node
       THEN SetMax({ TrueValue(c) : c \in SeqToSet(Children(n)) })
       ELSE SetMin({ TrueValue(c) : c \in SeqToSet(Children(n)) })

\* the activations of this run that have returned
Returned == { n \in Entered : IsLeaf(n) \/ n \in written }

\* C26: with pruning enabled, a node entered with window (alpha, beta) that
\* has returned v, m being its minimax value: v = m if alpha < v < beta,
\* m <= v if v <= alpha, m >= v if v >= beta.
C26_WindowBounds ==
  (pruning /\ phase \in {"minimax", "done"}) =>
     \A n \in Returned :
        /\ (nodes[n].alpha < nodes[n].value /\ nodes[n].value < nodes[n].beta)
             => nodes[n].value = TrueValue(n)
        /\ nodes[n].value <= nodes[n].alpha => TrueValue(n) <= nodes[n].value
        /\ nodes[n].value >= nodes[n].beta => TrueValue(n) >= nodes[n].value

\* a MIN node cut off with a value below alpha that is not its minimax value,
\* and a MAX node below the root whose value lies inside its window
C26_Witness ==
  /\ pruning /\ phase = "done"
  /\ \E n \in Returned :
        /\ ~IsLeaf(n) /\ nodes[n].value < nodes[n].alpha
        /\ TrueValue(n) < nodes[n].value
  /\ \E n \in Returned \ {Root} :
        /\ ~IsLeaf(n) /\ nodes[n].is_max_node
        /\ nodes[n].alpha < nodes[n].value /\ nodes[n].value < nodes[n].beta


\* the nodes visited for the first time in the iteration under way
NewlyVisited == { n \in Visited : iter0[n].visits = 0 }

\* C27: the expansion node has visits == 0 when it is chosen or is a leaf; so
\* an iteration turns at most one node from unvisited to visited, and after j
\* iterations at most j nodes have visits > 0.
C27_OneNewNode ==
  /\ phase = "simulation" => nodes[expanded_node].visits = 0 \/ IsLeaf(expanded_node)
  /\ phase = "backpropagation" =>
        /\ NewlyVisited \subseteq {expanded_node}
        /\ Cardinality(Visited) <= Completed + 1
  /\ BetweenIterations => Cardinality(Visited) <= Completed

\* the expansion node is a leaf visited before, so the iteration visits no
\* new node
C27_Witness ==
  /\ phase = "backpropagation" /\ current = NoNode
  /\ IsLeaf(expanded_node) /\ iter0[expanded_node].visits > 0
  /\ NewlyVisited = {}
  /\ Cardinality(Visited) < Completed + 1


\* C28: after j completed iterations the root's visits are j, every
\* backpropagation reaching the root once; so root.visits = N when the
\* recommendation is made.
C28_RootVisits ==
  /\ BetweenIterations => nodes[Root].visits = Completed
  /\ (phase = "backpropagation" /\ current = NoNode)
        => nodes[Root].visits = iter0[Root].visits + 1 /\ nodes[Root].visits = iteration
  /\ RunOver => nodes[Root].visits = iterations

\* the recommendation has been made after four iterations, the last of which
\* started below the root
C28_Witness ==
  /\ phase = "mcts_done"
  /\ iterations = 4 /\ nodes[Root].visits = 4
  /\ expanded_node # Root


\* ================================================== termination and order
\* every step of a run that can be taken is taken in the end: the program is
\* sequential and no step blocks
\* and the run or the two runs on one scene are followed to their end, on the
\* shapes of at most four leaves
FairShapeIds == {1, 2, 3, 5, 6, 7}
FairTreeSpecs == { Shape(s, v) : s \in FairShapeIds, v \in [LeafSlots -> 0..MaxVal] }

InitFair ==
  /\ tree_data \in FairTreeSpecs
  /\ nodes = build_tree(tree_data)
  /\ pruning \in BOOLEAN
  /\ phase = "ready"
  /\ error = "none"
  /\ stack = <<>>
  /\ ret = None
  /\ entered = <<>>
  /\ written = {}
  /\ fresh = TRUE
  /\ runs = <<>>
  /\ MctsIdle

SpecFair == InitFair /\ [][NextRerun]_vars /\ WF_vars(NextRerun)

\* no node is entered twice; a node is entered after its parent; the nodes
\* entered from a subtree are consecutive, the activations in progress being
\* those of the ancestors of the innermost one; a finished run with pruning
\* disabled on a fresh tree has entered every node
C29_Order ==
  /\ \A j, k \in 1..Len(entered) : j < k => entered[j] # entered[k]
  /\ \A k \in 1..Len(entered) :
        \/ entered[k] = Root /\ k = 1
        \/ \E j \in 1..(k - 1) : entered[j] = nodes[entered[k]].parent
  /\ \A j, l \in 1..Len(entered) :
        (j < l /\ entered[l] \in Subtree(entered[j]))
           => \A k \in j..l : entered[k] \in Subtree(entered[j])
  /\ phase = "minimax" =>
        \A k \in 1..Len(stack) :
           stack[k].node = IF k = 1 THEN Root ELSE Children(stack[k - 1].node)[stack[k - 1].i]
  /\ (phase = "done" /\ ~pruning) => Entered = NodeSet

\* C29: a minimax run terminates, enters each node at most once, a node only
\* after its parent, and the whole subtree of a child before the next
\* sibling; with pruning disabled on a fresh tree it enters every node
\* exactly once.
C29_TerminatesInOrder == [](C29_Order) /\ (phase = "minimax" ~> phase = "done")

\* a finished run without pruning over a tree of depth 3: seven nodes, each
\* entered once
C29_Witness ==
  /\ phase = "done" /\ ~pruning
  /\ Len(entered) = 7 /\ Entered = NodeSet
  /\ \E n \in NodeSet : nodes[n].depth = 3


PrunedIn(run) == { n \in NodeSet : run.nodes[n].pruned }

\* C30: a second minimax run on the same tree object with the same pruning
\* flag returns and shows the root value of the first run and leaves the same
\* nodes marked pruned, the values and marks of the first run still in place
\* when it starts.
C30_SecondRunSame ==
  Len(runs) = 2 =>
     /\ runs[2].pruning = runs[1].pruning
     /\ runs[2].returned = runs[1].returned
     /\ runs[2].shown = runs[1].shown
     /\ PrunedIn(runs[2]) = PrunedIn(runs[1])

\* both runs are over; the first left a node with children marked pruned and
\* wrote the root's value, and the second skipped what was marked
C30_Witness ==
  /\ Len(runs) = 2 /\ runs[1].pruning
  /\ \E n \in PrunedIn(runs[1]) : ~IsLeaf(n)
  /\ runs[1].nodes[Root].value # None
  /\ runs[2].returned = runs[1].returned
  /\ PrunedIn(runs[1]) \cap SeqToSet(runs[2].entered) = {}
====
